---- MODULE Spec2Model ----
(***************************************************************************)
(* Model of the two column browsers of finder4:                            *)
(*   finder4.py        - the random-seed column browser (FinderBrowser),   *)
(*                       its path codec and its seeded string generator;   *)
(*   finder_browser.py - the filesystem column browser.                    *)
(*                                                                         *)
(* Python str values are sequences of one-character strings, so that       *)
(* split, join, startswith, lower and comparison are computed as the code  *)
(* computes them.  Python list indices are 0-based in the source; the      *)
(* model keeps 0-based indices in everything it stores (col_index,         *)
(* currentRow) and converts at the point of indexing a TLA+ sequence.      *)
(*                                                                         *)
(* The library functions rand_strlist calls are translated too:            *)
(* hashlib.sha256 (FIPS 180-4) and module random of CPython 3.11, that is  *)
(* the Mersenne Twister MT19937 with random.seed, randint and choices on   *)
(* top of it.  The generator is ONE process-wide state, random.seed(a)     *)
(* overwrites that state, and every draw reads and advances it.  Numbers   *)
(* of 32 bits are pairs of 16-bit halves.                                  *)
(***************************************************************************)
EXTENDS Integers, Sequences, FiniteSets, TLC

VARIABLES
    pc,          \* lifecycle of the browser: "running", "closed", "crashed"
    fns,         \* self.fns: the provider list given to the constructor
    selection,   \* self.selection
    columns,     \* self.columns: one record per QListWidget (either browser)
    path_text,   \* self.path_lineedit.text() (either browser)
    root_path,   \* self.root_path of the filesystem browser
    settings,    \* the "path" value written by save_settings (Unwritten before that)
    rng,         \* state of the process-wide generator of module `random`
    raised,      \* exception that escaped the last handler ("none" if none did)
    last,        \* the last handler that ran, with its arguments
    call,        \* the last direct call of a core function: arguments and result
    first        \* the first direct call of the generator: arguments and result

browser_vars == <<pc, fns, selection, columns, path_text, root_path, settings, raised, last>>

harness_vars == <<call, first>>

vars == <<pc, fns, selection, columns, path_text, root_path, settings, rng, raised,
          last, call, first>>

----------------------------------------------------------------------------
(* Bounds *)

MaxFns == 2          \* longest provider list given to the constructor
MaxTypedLen == 4     \* longest text typed from scratch into the path field
MaxAppendLen == 1    \* longest text appended to the displayed path before Enter
MaxTextLen == 6      \* longest text in the path field when Enter is pressed
GenMinLen == 1       \* least n handed to rand_strlist called directly
GenMaxLen == 2       \* greatest m handed to rand_strlist called directly
GenCount == 2        \* greatest count handed to rand_strlist called directly
MaxSelLen == 3       \* longest selection handed to the path codec directly
MaxSegLen == 2       \* longest segment of such a selection
MaxSeedChars == 2    \* most characters in a seed handed to the generator directly
MaxFsColumns == 4    \* most columns the filesystem browser is driven to

----------------------------------------------------------------------------
(* Python str and list helpers *)

Min(a, b) == IF a < b THEN a ELSE b

\* s[:k]
Take(s, k) == SubSeq(s, 1, Min(k, Len(s)))

\* s[k:]
Drop(s, k) == SubSeq(s, Min(k, Len(s)) + 1, Len(s))

\* printable ASCII, code points 32..126 in order (the grave accent, code 96,
\* cannot be written as a TLA+ string and is held by a placeholder)
Ascii ==
    << " ", "!", "\"", "#", "$", "%", "&", "'", "(", ")", "*", "+", ",", "-", ".", "/",
       "0", "1", "2", "3", "4", "5", "6", "7", "8", "9", ":", ";", "<", "=", ">", "?",
       "@", "A", "B", "C", "D", "E", "F", "G", "H", "I", "J", "K", "L", "M", "N", "O",
       "P", "Q", "R", "S", "T", "U", "V", "W", "X", "Y", "Z", "[", "\\", "]", "^", "_",
       "grave", "a", "b", "c", "d", "e", "f", "g", "h", "i", "j", "k", "l", "m", "n", "o",
       "p", "q", "r", "s", "t", "u", "v", "w", "x", "y", "z", "{", "|", "}", "~" >>

\* ord(c)
Ord(c) == 31 + (CHOOSE i \in 1..Len(Ascii) : Ascii[i] = c)

\* chr(k)
Chr(k) == Ascii[k - 31]

\* all strings over the character set cs of length 0..k
RECURSIVE StringsUpTo(_, _)
StringsUpTo(cs, k) ==
    IF k = 0 THEN {<<>>}
    ELSE LET shorter == StringsUpTo(cs, k - 1)
         IN  shorter \cup {Append(s, c) : s \in shorter, c \in cs}

\* sep.join(parts)
RECURSIVE str_join(_, _)
str_join(sep, parts) ==
    IF Len(parts) = 0 THEN <<>>
    ELSE IF Len(parts) = 1 THEN parts[1]
    ELSE parts[1] \o sep \o str_join(sep, Tail(parts))

\* s.split(c) for a one-character separator: always at least one piece
RECURSIVE str_split_from(_, _, _, _)
str_split_from(s, c, i, piece) ==
    IF i > Len(s) THEN <<piece>>
    ELSE IF s[i] = c THEN <<piece>> \o str_split_from(s, c, i + 1, <<>>)
    ELSE str_split_from(s, c, i + 1, Append(piece, s[i]))

str_split(s, c) == str_split_from(s, c, 1, <<>>)

\* s.startswith(c) for a one-character prefix
str_startswith(s, c) == Len(s) > 0 /\ s[1] = c

\* [x for x in xs if x]
RECURSIVE drop_empty(_)
drop_empty(xs) ==
    IF Len(xs) = 0 THEN <<>>
    ELSE IF Len(xs[1]) = 0 THEN drop_empty(Tail(xs))
    ELSE <<xs[1]>> \o drop_empty(Tail(xs))

Slash == <<"/">>

----------------------------------------------------------------------------
(* Python values handed to a provider as its seed: a list of str, a tuple *)
(* of str, or a single str (items = <<the text>>).                         *)

PyList(items) == [type |-> "list", items |-> items]
PyTuple(items) == [type |-> "tuple", items |-> items]
PyStr(text) == [type |-> "str", items |-> <<text>>]

\* isinstance(v, list)
IsList(v) == v.type = "list"

\* repr of a str without quotes or escapes in it
str_repr(s) == <<"'">> \o s \o <<"'">>

RECURSIVE reprs(_)
reprs(items) ==
    IF Len(items) = 0 THEN <<>>
    ELSE <<str_repr(items[1])>> \o reprs(Tail(items))

\* str(v)
py_str(v) ==
    IF v.type = "str" THEN v.items[1]
    ELSE IF v.type = "list"
         THEN <<"[">> \o str_join(<<",", " ">>, reprs(v.items)) \o <<"]">>
    ELSE IF Len(v.items) = 1
         THEN <<"(">> \o str_repr(v.items[1]) \o <<",", ")">>
    ELSE <<"(">> \o str_join(<<",", " ">>, reprs(v.items)) \o <<")">>

----------------------------------------------------------------------------
(* The seeded generator: FinderBrowser.rand_strlist                        *)

\* string.ascii_letters + string.digits
Alphabet ==
    << "a", "b", "c", "d", "e", "f", "g", "h", "i", "j", "k", "l", "m",
       "n", "o", "p", "q", "r", "s", "t", "u", "v", "w", "x", "y", "z",
       "A", "B", "C", "D", "E", "F", "G", "H", "I", "J", "K", "L", "M",
       "N", "O", "P", "Q", "R", "S", "T", "U", "V", "W", "X", "Y", "Z",
       "0", "1", "2", "3", "4", "5", "6", "7", "8", "9" >>

(* Unsigned 32-bit words, as hashlib and the generator compute with them.  *)
(* A word is <<high half, low half>>, each half in 0..65535, so that no    *)
(* intermediate result leaves the integers TLC computes with.  The         *)
(* operations are functions, which are applied to values.                  *)

Word == (0..65535) \X (0..65535)

\* a ^ b for numbers of k bits
RECURSIVE xor_bits(_, _, _)
xor_bits(a, b, k) ==
    IF k = 0 THEN 0 ELSE ((a + b) % 2) + 2 * xor_bits(a \div 2, b \div 2, k - 1)

\* a ^ b for bytes
XorByte == [a \in 0..255 |-> [b \in 0..255 |-> xor_bits(a, b, 8)]]

\* a ^ b for halves
xor16[a \in 0..65535, b \in 0..65535] ==
    XorByte[a \div 256][b \div 256] * 256 + XorByte[a % 256][b % 256]

\* x ^ y
w_xor[x \in Word, y \in Word] == <<xor16[x[1], y[1]], xor16[x[2], y[2]]>>

\* x & y, from a + b = (a ^ b) + 2 * (a & b)
w_and[x \in Word, y \in Word] ==
    <<(x[1] + y[1] - xor16[x[1], y[1]]) \div 2, (x[2] + y[2] - xor16[x[2], y[2]]) \div 2>>

\* x + y mod 2**32
w_add[x \in Word, y \in Word] ==
    <<(x[1] + y[1] + ((x[2] + y[2]) \div 65536)) % 65536, (x[2] + y[2]) % 65536>>

\* x >> r
w_shr[x \in Word, r \in 0..31] ==
    IF r = 0 THEN x
    ELSE IF r < 16 THEN <<x[1] \div 2^r, (x[2] \div 2^r) + (x[1] % 2^r) * 2^(16 - r)>>
    ELSE <<0, x[1] \div 2^(r - 16)>>

\* x << s mod 2**32
w_shl[x \in Word, s \in 0..31] ==
    IF s = 0 THEN x
    ELSE IF s < 16
    THEN <<((x[1] % 2^(16 - s)) * 2^s) + (x[2] \div 2^(16 - s)), (x[2] % 2^(16 - s)) * 2^s>>
    ELSE <<(x[2] % 2^(32 - s)) * 2^(s - 16), 0>>

\* x rotated right by r: (x >> r) | (x << (32 - r))
w_rotr[x \in Word, r \in 1..31] ==
    IF r < 16
    THEN <<(x[1] \div 2^r) + (x[2] % 2^r) * 2^(16 - r),
           (x[2] \div 2^r) + (x[1] % 2^r) * 2^(16 - r)>>
    ELSE <<(x[2] \div 2^(r - 16)) + (x[1] % 2^(r - 16)) * 2^(32 - r),
           (x[1] \div 2^(r - 16)) + (x[2] % 2^(r - 16)) * 2^(32 - r)>>

\* x * c mod 2**32 (mul16: the product of the halves a and b, as a word)
w_mul[x \in Word, c \in Word] ==
    LET mul16(a, b) ==
            LET t1 == a * (b \div 256)
                t0 == a * (b % 256)
                low == (t1 % 256) * 256 + t0
            IN  <<(t1 \div 256) + (low \div 65536), low % 65536>>
    IN  <<(mul16(x[2], c[2])[1] + mul16(x[1], c[2])[2] + mul16(x[2], c[1])[2]) % 65536,
          mul16(x[2], c[2])[2]>>

(* hashlib.sha256 (FIPS 180-4) *)

Sha256K ==
    << <<17034, 12184>>, <<28983, 17553>>, <<46528, 64463>>, <<59829, 56229>>,
       <<14678, 49755>>, <<23025, 4593>>, <<37439, 33444>>, <<43804, 24277>>,
       <<55303, 43672>>, <<4739, 23297>>, <<9265, 34238>>, <<21772, 32195>>,
       <<29374, 23924>>, <<32990, 45566>>, <<39900, 1703>>, <<49563, 61812>>,
       <<58523, 27073>>, <<61374, 18310>>, <<4033, 40390>>, <<9228, 41420>>,
       <<11753, 11375>>, <<19060, 33962>>, <<23728, 43484>>, <<30457, 35034>>,
       <<38974, 20818>>, <<43057, 50797>>, <<45059, 10184>>, <<48985, 32711>>,
       <<50912, 3059>>, <<54695, 37191>>, <<1738, 25425>>, <<5161, 10599>>,
       <<10167, 2693>>, <<11803, 8504>>, <<19756, 28156>>, <<21304, 3347>>,
       <<25866, 29524>>, <<30314, 2747>>, <<33218, 51502>>, <<37490, 11397>>,
       <<41663, 59553>>, <<43034, 26187>>, <<49739, 35696>>, <<51052, 20899>>,
       <<53650, 59417>>, <<54937, 1572>>, <<62478, 13701>>, <<4202, 41072>>,
       <<6564, 49430>>, <<7735, 27656>>, <<10056, 30540>>, <<13488, 48309>>,
       <<14620, 3251>>, <<20184, 43594>>, <<23452, 51791>>, <<26670, 28659>>,
       <<29839, 33518>>, <<30885, 25455>>, <<33992, 30740>>, <<36039, 520>>,
       <<37054, 65530>>, <<42064, 27883>>, <<48889, 41975>>, <<50801, 30962>> >>

Sha256H0 ==
    << <<27145, 58983>>, <<47975, 44677>>, <<15470, 62322>>, <<42319, 62778>>,
       <<20750, 21119>>, <<39685, 26764>>, <<8067, 55723>>, <<23520, 52505>> >>

\* the message schedule W[1..64] grown from the 16 words of a block: n more
\* words (the loop is run as two halves of itself)
RECURSIVE schedule(_, _)
schedule(W, n) ==
    LET s0(x) == w_xor[w_xor[w_rotr[x, 7], w_rotr[x, 18]], w_shr[x, 3]]
        s1(x) == w_xor[w_xor[w_rotr[x, 17], w_rotr[x, 19]], w_shr[x, 10]]
    IN  IF Len(W) = 64 \/ n = 0 THEN W
        ELSE IF n = 1
        THEN Append(W, w_add[w_add[s1(W[Len(W) - 1]), W[Len(W) - 6]],
                             w_add[s0(W[Len(W) - 14]), W[Len(W) - 15]]])
        ELSE schedule(schedule(W, n \div 2), n - (n \div 2))

\* the working variables <<a, b, c, d, e, f, g, h>> after one round with the
\* constant k and the schedule word w
round(v, k, w) ==
    LET Ch(x, y, z) == w_xor[w_and[x, y], w_and[<<65535 - x[1], 65535 - x[2]>>, z]]
        Maj(x, y, z) == w_xor[w_xor[w_and[x, y], w_and[x, z]], w_and[y, z]]
        S0(x) == w_xor[w_xor[w_rotr[x, 2], w_rotr[x, 13]], w_rotr[x, 22]]
        S1(x) == w_xor[w_xor[w_rotr[x, 6], w_rotr[x, 11]], w_rotr[x, 25]]
        moved(T1, T2) ==
            <<w_add[T1, T2], v[1], v[2], v[3], w_add[v[4], T1], v[5], v[6], v[7]>>
    IN  moved(w_add[w_add[w_add[v[8], S1(v[5])], w_add[Ch(v[5], v[6], v[7]), k]], w],
              w_add[S0(v[1]), Maj(v[1], v[2], v[3])])

\* n rounds from round s.t on, on the working variables s.v (the loop is run
\* as two halves of itself)
RECURSIVE rounds(_, _, _)
rounds(s, W, n) ==
    IF s.t > 64 \/ n = 0 THEN s
    ELSE IF n = 1 THEN [v |-> round(s.v, Sha256K[s.t], W[s.t]), t |-> s.t + 1]
    ELSE rounds(rounds(s, W, n \div 2), W, n - (n \div 2))

\* the hash value after the 16 words of one more block
compress(H, block) ==
    LET added(v) == <<w_add[H[1], v[1]], w_add[H[2], v[2]], w_add[H[3], v[3]],
                      w_add[H[4], v[4]], w_add[H[5], v[5]], w_add[H[6], v[6]],
                      w_add[H[7], v[7]], w_add[H[8], v[8]]>>
    IN  added(rounds([v |-> H, t |-> 1], schedule(block, 48), 64).v)

\* hashlib.sha256(bytes).digest() as eight words.  padded: the bytes of the
\* message after padding, 0x80, zeros up to 56 mod 64, then the length in
\* bits as 8 bytes
sha256(bytes) ==
    LET padded ==
            bytes \o <<128>> \o [i \in 1..((119 - Len(bytes)) % 64) |-> 0]
                  \o <<0, 0, 0, 0, ((8 * Len(bytes)) \div 16777216) % 256,
                       ((8 * Len(bytes)) \div 65536) % 256,
                       ((8 * Len(bytes)) \div 256) % 256, (8 * Len(bytes)) % 256>>
        block(p, b) ==
            <<>> \o [i \in 1..16 |-> <<p[64 * b + 4 * i - 3] * 256 + p[64 * b + 4 * i - 2],
                                       p[64 * b + 4 * i - 1] * 256 + p[64 * b + 4 * i]>>]
        RECURSIVE blocks(_, _, _)
        blocks(H, p, b) ==
            IF 64 * b >= Len(p) THEN H ELSE blocks(compress(H, block(p, b)), p, b + 1)
    IN  blocks(Sha256H0, padded, 0)

(* The Mersenne Twister behind module random (MT19937, as in CPython's      *)
(* _randommodule.c).  A generator state is [mt |-> the 624 words, mti |->   *)
(* how many of them have been handed out].                                  *)

MtN == 624

MtM == 397

\* the loop of init_genrand(s), which begins with mt[0] = s:
\* mt[i] = 1812433253 * (mt[i-1] ^ (mt[i-1] >> 30)) + i, n more words (the
\* loop is run as two halves of itself)
RECURSIVE init_genrand_from(_, _)
init_genrand_from(mt, n) ==
    IF Len(mt) = MtN \/ n = 0 THEN mt
    ELSE IF n = 1
    THEN Append(mt, w_add[w_mul[w_xor[mt[Len(mt)], w_shr[mt[Len(mt)], 30]],
                                <<27655, 35173>>],
                          <<0, Len(mt)>>])
    ELSE init_genrand_from(init_genrand_from(mt, n \div 2), n - (n \div 2))

\* the loop `for (; k; k--)` of init_by_array: n passes from the index s.i
\* into mt and the index s.j into the key (both from 0), s.k passes being
\* left (the loop is run as two halves of itself)
RECURSIVE key_loop(_, _, _)
key_loop(s, init_key, n) ==
    IF s.k = 0 \/ n = 0 THEN s
    ELSE IF n = 1
    THEN LET \* mt[i] = (mt[i] ^ ((mt[i-1] ^ (mt[i-1] >> 30)) * 1664525))
             \*         + init_key[j] + j
             mixed == [s.mt EXCEPT ![s.i + 1] =
                          w_add[w_add[w_xor[s.mt[s.i + 1],
                                            w_mul[w_xor[s.mt[s.i], w_shr[s.mt[s.i], 30]],
                                                  <<25, 26125>>]],
                                      init_key[s.j + 1]],
                                <<0, s.j>>]]
         IN  \* if (i >= N) { mt[0] = mt[N-1]; i = 1; }  if (j >= key_length) j = 0;
             [mt |-> IF s.i + 1 >= MtN THEN [mixed EXCEPT ![1] = mixed[MtN]] ELSE mixed,
              i |-> IF s.i + 1 >= MtN THEN 1 ELSE s.i + 1,
              j |-> IF s.j + 1 >= Len(init_key) THEN 0 ELSE s.j + 1,
              k |-> s.k - 1]
    ELSE key_loop(key_loop(s, init_key, n \div 2), init_key, n - (n \div 2))

\* the loop `for (k = N-1; k; k--)` of init_by_array: n passes from the index
\* s.i, s.k passes being left (the loop is run as two halves of itself)
RECURSIVE index_loop(_, _)
index_loop(s, n) ==
    IF s.k = 0 \/ n = 0 THEN s
    ELSE IF n = 1
    THEN LET \* mt[i] = (mt[i] ^ ((mt[i-1] ^ (mt[i-1] >> 30)) * 1566083941)) - i
             mixed == [s.mt EXCEPT ![s.i + 1] =
                          w_add[w_add[w_xor[s.mt[s.i + 1],
                                            w_mul[w_xor[s.mt[s.i], w_shr[s.mt[s.i], 30]],
                                                  <<23896, 35685>>]],
                                      <<65535, 65535 - s.i>>],
                                <<0, 1>>]]
         IN  [mt |-> IF s.i + 1 >= MtN THEN [mixed EXCEPT ![1] = mixed[MtN]] ELSE mixed,
              i |-> IF s.i + 1 >= MtN THEN 1 ELSE s.i + 1,
              k |-> s.k - 1]
    ELSE index_loop(index_loop(s, n \div 2), n - (n \div 2))

\* init_genrand(19650218), which every init_by_array begins with
MtStart == init_genrand_from(<< <<299, 54954>> >>, MtN - 1)

\* init_by_array(init_key, key_length): the state seeded with the key words
\* init_key, no word of it being ready to hand out
init_by_array(init_key) ==
    LET \* k = (N > key_length ? N : key_length)
        passes == IF MtN > Len(init_key) THEN MtN ELSE Len(init_key)
        second(s) == index_loop([mt |-> s.mt, i |-> s.i, k |-> MtN - 1], MtN - 1)
        \* mt[0] = 0x80000000
        done(s) == [mt |-> [s.mt EXCEPT ![1] = <<32768, 0>>], mti |-> MtN]
    IN  done(second(key_loop([mt |-> MtStart, i |-> 1, j |-> 0, k |-> passes],
                             init_key, passes)))

\* the passes of the twist of genrand_uint32,
\*   y = (mt[kk] & 0x80000000) | (mt[(kk+1) % N] & 0x7fffffff)
\*   mt[kk] = mt[(kk + M) % N] ^ (y >> 1) ^ (y odd ? 0x9908b0df : 0)
\* from kk = s.kk on, in the stretches that end before stops[1], stops[2],
\* ...: no pass of a stretch reads a word that an earlier pass of the same
\* stretch has written
RECURSIVE twist_loop(_, _)
twist_loop(s, stops) ==
    LET twisted(far, upper, lower) ==
            w_xor[w_xor[far, w_shr[<<(upper[1] \div 32768) * 32768 + (lower[1] % 32768),
                                     lower[2]>>, 1]],
                  IF lower[2] % 2 = 1 THEN <<39176, 45279>> ELSE <<0, 0>>]
    IN  IF s.kk >= MtN \/ Len(stops) = 0 THEN s
        ELSE twist_loop([mt |-> SubSeq(s.mt, 1, s.kk)
                                \o [k \in 1..(stops[1] - s.kk) |->
                                       twisted(s.mt[((s.kk + k - 1 + MtM) % MtN) + 1],
                                               s.mt[s.kk + k],
                                               s.mt[((s.kk + k) % MtN) + 1])]
                                \o SubSeq(s.mt, stops[1] + 1, MtN),
                         kk |-> stops[1]],
                        Tail(stops))

\* the 624 words after the twist: the passes up to N - M read old words
\* alone, the next N - M read those, the ones up to N - 1 read these, and the
\* last one reads its two new neighbours
regenerate(mt) ==
    twist_loop([mt |-> mt, kk |-> 0], <<MtN - MtM, 2 * (MtN - MtM), MtN - 1, MtN>>).mt

\* the value a draw yields and the state the generator has advanced to
drawn(value, r1) == [value |-> value, rng |-> r1]

\* genrand_uint32: the word handed out, tempered, and the state after it
genrand_uint32(r) ==
    LET t1(x) == w_xor[x, w_shr[x, 11]]
        t2(x) == w_xor[x, w_and[w_shl[x, 7], <<40236, 22144>>]]
        t3(x) == w_xor[x, w_and[w_shl[x, 15], <<61382, 0>>]]
        t4(x) == w_xor[x, w_shr[x, 18]]
        temper(y) == t4(t3(t2(t1(y))))
        taken(s) == drawn(temper(s.mt[s.mti + 1]), [mt |-> s.mt, mti |-> s.mti + 1])
    IN  taken(IF r.mti >= MtN THEN [mt |-> regenerate(r.mt), mti |-> 0] ELSE r)

(* Module random on top of the generator (CPython 3.11) *)

\* int(hashlib.sha256(seed_str.encode("utf-8")).hexdigest(), 16) % (2**32):
\* the last word of the digest of the text's bytes
seed_int(seed_str) == sha256([i \in 1..Len(seed_str) |-> Ord(seed_str[i])])[8]

\* random.seed(a) for 0 <= a < 2**32: the new generator state, whatever the
\* old one was (the key given to init_by_array is the one word a)
random_seed(a) == init_by_array(<<a>>)

\* getrandbits(k) drawn in state r, 1 <= k <= 31: the top k bits of a word
getrandbits(r, k) ==
    LET top(d) == drawn(IF k <= 16 THEN d.value[1] \div 2^(16 - k)
                        ELSE d.value[1] * 2^(k - 16) + d.value[2] \div 2^(32 - k),
                        d.rng)
    IN  top(genrand_uint32(r))

\* n.bit_length()
RECURSIVE bit_length(_)
bit_length(n) == IF n = 0 THEN 0 ELSE 1 + bit_length(n \div 2)

\* _randbelow_with_getrandbits(n) drawn in state r: draws of k = n.bit_length()
\* bits until one is below n
RECURSIVE _randbelow(_, _)
_randbelow(r, n) ==
    LET again(d) == IF d.value < n THEN d ELSE _randbelow(d.rng, n)
    IN  again(getrandbits(r, bit_length(n)))

\* random.randint drawing from n..m+1
random_randint_mut(r, n, m) ==
    LET from(d) == drawn(n + d.value, d.rng)
    IN  from(_randbelow(r, m - n + 2))

\* random.randint(n, m) drawn in state r, that is randrange(n, m + 1):
\* n + _randbelow(m + 1 - n); needs n <= m
random_randint(r, n, m) ==
    LET from(d) == drawn(n + d.value, d.rng)
    IN  from(_randbelow(r, m - n + 1))

\* random.random() drawn in state r: the pair <<a, b>> of
\* a = genrand_uint32() >> 5 and b = genrand_uint32() >> 6, standing for the
\* float (a * 67108864 + b) / 2**53
random_random(r) ==
    LET both(a, b) == drawn(<<a.value, b.value>>, b.rng)
        after(a) == both(a, getrandbits(a.rng, 26))
    IN  after(getrandbits(r, 27))

\* floor(f * n) in double arithmetic, for the float f = <<a, b>> and
\* 1 <= n < 2**17: with P = (a * 2**26 + b) * n, the quotient q of P by
\* 2**53, or q + 1 when the product rounds up to the next integer (the 53
\* bits kept of P end before its fraction does)
floor_times(f, n) ==
    LET t == n * (f[2] % 8192)
        u == n * (f[2] \div 8192) + (t \div 8192)
        v == n * (f[1] % 16384) + (u \div 8192)
        w == n * (f[1] \div 16384) + (v \div 16384)
        q == w \div 8192
        high == (w % 8192) * 16384 + (v % 16384)
        low == (u % 8192) * 8192 + (t % 8192)
    IN  IF q >= 1 /\ high = 2^27 - 1 /\ 2^26 - low <= 2^(bit_length(q) - 1)
        THEN q + 1 ELSE q

\* random.choices(population, k=...): n more elements drawn after the ones of
\* s.value, each population[floor(random() * len(population))] (the loop is
\* run as two halves of itself)
RECURSIVE choices_from(_, _, _)
choices_from(s, population, n) ==
    LET chosen(f) == drawn(Append(s.value,
                                  population[floor_times(f.value, Len(population)) + 1]),
                           f.rng)
    IN  IF n <= 0 THEN s
        ELSE IF n = 1 THEN chosen(random_random(s.rng))
        ELSE choices_from(choices_from(s, population, n \div 2), population, n - (n \div 2))

\* "".join(random.choices(population, k=k)) drawn in state r
random_choices(r, population, k) == choices_from(drawn(<<>>, r), population, k)

\* the loop `for _ in range(count)` of rand_strlist: `left` more iterations
\* after s, an exception ending the loop (the loop is run as two halves of
\* itself)
RECURSIVE rand_items_from(_, _, _, _)
rand_items_from(s, n, m, left) ==
    LET \* result.append(s)
        appended(str) ==
            [result |-> Append(s.result, str.value), rng |-> str.rng, exc |-> "none"]
        \* s = "".join(random.choices(..., k=length))
        joined(length) == appended(random_choices(length.rng, Alphabet, length.value))
    IN  IF s.exc # "none" \/ left <= 0 THEN s
        ELSE IF left = 1
        THEN IF n > m THEN [result |-> s.result, rng |-> s.rng, exc |-> "ValueError"]
             ELSE joined(random_randint(s.rng, n, m))
        ELSE rand_items_from(rand_items_from(s, n, m, left \div 2), n, m, left - (left \div 2))

\* result = []; for _ in range(count): ..., drawn from generator state r
rand_items(r, n, m, count) ==
    rand_items_from([result |-> <<>>, rng |-> r, exc |-> "none"], n, m, count)

\* the text hashed when the test is `if not seed_list`: an empty list is
\* replaced by its own text too
seed_text_mut(seed_list) ==
    LET as_list == IF ~IsList(seed_list) \/ Len(seed_list.items) = 0
                   THEN <<py_str(seed_list)>> ELSE seed_list.items
    IN  str_join(<<>>, as_list)

\* the text hashed when the items are joined with a separator
seed_text_sep(seed_list) ==
    LET as_list == IF ~IsList(seed_list) THEN <<py_str(seed_list)>> ELSE seed_list.items
    IN  str_join(Slash, as_list)

\* the text rand_strlist hashes
seed_text(seed_list) ==
    LET as_list == IF ~IsList(seed_list) THEN <<py_str(seed_list)>> ELSE seed_list.items
    IN  str_join(<<>>, as_list)

\* the state the generator is in when rand_strlist starts drawing: the one
\* random.seed(seed_int) gives, whatever state r it was in
seeded_state(seed_str, r) == random_seed(seed_int(seed_str))

\* rand_strlist from the hashed text seed_str on: the returned list, the
\* state the generator is left in, and the exception
rand_strlist_from(seed_str, n, m, count, r) ==
    rand_items(seeded_state(seed_str, r), n, m, count)

----------------------------------------------------------------------------
(* The arguments rand_strlist is given: by the host calling it directly,   *)
(* and by the provider of test() under the selections the browser reaches  *)

\* a state of the process-wide generator when the program starts
RngStart == random_seed(<<0, 0>>)

\* states the process-wide generator can be in when the program starts
\* (Python seeds it from the operating system): freshly seeded ones and one
\* that a word has been drawn from
RngStarts == {RngStart, random_seed(<<1, 0>>), genrand_uint32(random_seed(<<0, 1>>)).rng}

\* n, m and count of `FinderBrowser.rand_strlist(seed, n=5, m=8, count=10)`
EntryMinLen == 5

EntryMaxLen == 8

EntryCount == 10

\* sequences over the set xs of length 0..k
RECURSIVE SeqsUpTo(_, _)
SeqsUpTo(xs, k) ==
    IF k = 0 THEN {<<>>}
    ELSE LET shorter == SeqsUpTo(xs, k - 1)
         IN  shorter \cup {Append(q, x) : q \in shorter, x \in xs}

\* number of characters of the seed items together
RECURSIVE total_len(_)
total_len(items) ==
    IF Len(items) = 0 THEN 0 ELSE Len(items[1]) + total_len(Tail(items))

SeedSegments == {<<"a">>, <<"b">>, <<"a", "b">>}

\* seeds handed to rand_strlist: lists of str, and values that are no list
GenSeeds ==
    {PyList(q) : q \in {x \in SeqsUpTo(SeedSegments, MaxSeedChars) :
                           total_len(x) <= MaxSeedChars}}
    \cup {PyStr(<<"a", "b">>), PyTuple(<<>>)}

\* (n, m) handed to rand_strlist
GenLengths == {<<GenMinLen, GenMinLen>>, <<GenMinLen, GenMaxLen>>}

\* count handed to rand_strlist
GenCounts == {0, GenCount}

\* characters typed into the path field
TypedChars == {"a", "/"}

\* a provider other than gen_random_entries: a callable that returns the
\* same labels whatever its seed
FixedLabels == << <<"a">>, <<"b">>, <<"a">> >>

\* the callables given to the constructor in a provider list
Providers ==
    { [name |-> "gen_random_entries", labels |-> <<>>],
      [name |-> "fixed", labels |-> FixedLabels] }

\* the segments a selection can go on with under a column showing `labels`:
\* a label clicked, a segment typed, a label with typed characters appended
segments_after(labels) ==
    LET shown == {labels[i] : i \in 1..Len(labels)}
                     \cup {FixedLabels[i] : i \in 1..Len(FixedLabels)} \cup {<<>>}
        typed == StringsUpTo(TypedChars \ {"/"}, MaxTextLen)
    IN  {p[1] \o p[2] :
            p \in {q \in shown \X typed :
                      /\ Len(q[1] \o q[2]) > 0
                      /\ Len(q[2]) = 0 \/ Len(q[1] \o q[2]) < MaxTextLen}}

(* rand_strlist seeds the generator anew from the hashed text and draws    *)
(* from there, so what it returns and the state it leaves are determined   *)
(* by <<seed_str, n, m, count>>.  They are computed once for the arguments *)
(* listed above (Tabulated); for any other arguments they are computed     *)
(* when the call is made.                                                  *)

\* rand_strlist_from by <<seed_str, n, m, count>>: for the calls made
\* directly (depth < 0; the text of the empty list is among their seeds),
\* and for the calls gen_random_entries makes under the selections of up to
\* `depth` segments
RECURSIVE tabulated_upto(_)
tabulated_upto(depth) ==
    LET known == IF depth < 0 THEN <<>> ELSE tabulated_upto(depth - 1)
        entry_keys == {k \in DOMAIN known :
                          <<k[2], k[3], k[4]>> = <<EntryMinLen, EntryMaxLen, EntryCount>>}
        direct_keys == {<<seed_text(s), nm[1], nm[2], c>> :
                           s \in GenSeeds \cup {PyList(<<py_str(PyList(<<>>))>>)},
                           nm \in GenLengths, c \in GenCounts}
        keys == IF depth < 0 THEN direct_keys
                ELSE IF depth = 0 THEN {<<<<>>, EntryMinLen, EntryMaxLen, EntryCount>>}
                ELSE UNION {{<<k[1] \o s, EntryMinLen, EntryMaxLen, EntryCount>> :
                               s \in segments_after(known[k].result)} : k \in entry_keys}
    IN  known @@ [k \in keys \ DOMAIN known |->
                     rand_strlist_from(k[1], k[2], k[3], k[4], RngStart)]

Tabulated == tabulated_upto(MaxFns - 1)

\* the entry of the table for <<seed_str, n, m, count>> if it has one, else
\* what rand_strlist_from computes
looked_up(table, seed_str, n, m, count, r) ==
    IF <<seed_str, n, m, count>> \in DOMAIN table THEN table[<<seed_str, n, m, count>>]
    ELSE rand_strlist_from(seed_str, n, m, count, r)

\* rand_strlist without its random.seed(seed_int): drawing goes on from the
\* state the previous call left
rand_strlist_mut(seed_list, n, m, count, r) == rand_items(r, n, m, count)

\* rand_strlist(seed_list, n, m, count) called when the generator is in state r:
\* the returned list, the state the generator is left in, and the exception
rand_strlist(seed_list, n, m, count, r) ==
    looked_up(Tabulated, seed_text(seed_list), n, m, count, r)

\* gen_random_entries(seed) of test()
gen_random_entries(seed, r) ==
    LET as_list == IF ~IsList(seed) THEN PyList(<<py_str(seed)>>) ELSE seed
    IN  rand_strlist(as_list, EntryMinLen, EntryMaxLen, EntryCount, r)

\* self.fns[i](seed): the callable fn applied to the seed
call_fn(fn, seed, r) ==
    IF fn.name = "gen_random_entries" THEN gen_random_entries(seed, r)
    ELSE [result |-> fn.labels, rng |-> r, exc |-> "none"]

----------------------------------------------------------------------------
(* The path codec *)

\* get_path without the leading slash
get_path_mut(sel) == str_join(Slash, sel)

\* FinderBrowser.get_path
get_path(sel) ==
    IF Len(sel) = 0 THEN Slash
    ELSE Slash \o str_join(Slash, sel)

\* the comprehension without its `if seg`
kept_segments_mut(pieces) == pieces

\* the segments set_selection_from_path keeps of a non-empty remainder
kept_segments(pieces) == drop_empty(pieces)

\* set_selection_from_path dropping the first character without looking at it
set_selection_from_path_cut(path_str) ==
    LET stripped == IF Len(path_str) = 0 THEN path_str ELSE Drop(path_str, 1)
    IN  IF Len(stripped) = 0 THEN <<>>
        ELSE kept_segments(str_split(stripped, "/"))

\* set_selection_from_path without the split: the remainder as one segment
set_selection_from_path_mut(path_str) ==
    LET stripped == IF str_startswith(path_str, "/") THEN Drop(path_str, 1) ELSE path_str
    IN  IF Len(stripped) = 0 THEN <<>> ELSE <<stripped>>

\* FinderBrowser.set_selection_from_path: the selection it installs
set_selection_from_path(path_str) ==
    LET stripped == IF str_startswith(path_str, "/") THEN Drop(path_str, 1) ELSE path_str
    IN  IF Len(stripped) = 0 THEN <<>>
        ELSE kept_segments(str_split(stripped, "/"))

----------------------------------------------------------------------------
(* FinderBrowser.refresh *)

\* the loop setting the row after it has ended: the first match, or the last
\* row looked at when nothing matched
current_row_mut(options, wanted) ==
    IF \E k \in 1..Len(options) : options[k] = wanted
    THEN (CHOOSE k \in 1..Len(options) :
            /\ options[k] = wanted
            /\ \A j \in 1..(k - 1) : options[j] # wanted) - 1
    ELSE Len(options) - 1

\* row selected by the loop `for idx in range(list_widget.count())`; -1 if none
current_row(options, wanted) ==
    IF \E k \in 1..Len(options) : options[k] = wanted
    THEN (CHOOSE k \in 1..Len(options) :
            /\ options[k] = wanted
            /\ \A j \in 1..(k - 1) : options[j] # wanted) - 1
    ELSE -1

\* the seed of column i taken with the column's own selected value
column_seed_mut(sel, i) == PyList(Take(sel, i + 1))

\* `seed = self.selection[:i]`
column_seed(sel, i) == PyList(Take(sel, i))

\* the loop `for i in range(len(self.selection))`, from index i on
RECURSIVE build_selected(_, _, _, _, _)

\* iteration i once the provider has returned g
build_column(g, i, sel, fs, cols) ==
    IF g.exc # "none" THEN [columns |-> cols, rng |-> g.rng, exc |-> g.exc]
    ELSE build_selected(i + 1, sel, fs,
            Append(cols, [options |-> g.result,
                          currentRow |-> current_row(g.result, sel[i + 1])]),
            g.rng)

build_selected(i, sel, fs, cols, r) ==
    IF i >= Len(sel) THEN [columns |-> cols, rng |-> r, exc |-> "none"]
    ELSE IF i >= Len(fs) THEN [columns |-> cols, rng |-> r, exc |-> "IndexError"]
    ELSE build_column(call_fn(fs[i + 1], column_seed(sel, i), r), i, sel, fs, cols)

\* the preview test off by one
wants_preview_mut(sel, fs) == Len(sel) + 1 < Len(fs)

\* `if len(self.selection) < len(self.fns)`
wants_preview(sel, fs) == Len(sel) < Len(fs)

\* refresh that keeps the columns it finds
remove_columns_mut(cols) == cols

\* the loop `while self.columns`: what is left of the existing columns
remove_columns(cols) == <<>>

\* the preview column once the provider has returned g, then the path display
build_preview(g, sel, cols, text) ==
    IF g.exc # "none"
    THEN [columns |-> cols, path_text |-> text, rng |-> g.rng, exc |-> g.exc]
    ELSE [columns |-> Append(cols, [options |-> g.result, currentRow |-> -1]),
          path_text |-> get_path(sel), rng |-> g.rng, exc |-> "none"]

\* refresh() after its loop over the selection has ended with b
refresh_after(b, sel, fs, text) ==
    IF b.exc # "none"
    THEN [columns |-> b.columns, path_text |-> text, rng |-> b.rng, exc |-> b.exc]
    ELSE IF wants_preview(sel, fs)
    THEN build_preview(call_fn(fs[Len(sel) + 1], PyList(sel), b.rng),
                       sel, b.columns, text)
    ELSE [columns |-> b.columns, path_text |-> get_path(sel),
          rng |-> b.rng, exc |-> "none"]

\* refresh() on selection sel, providers fs, existing columns cols, displayed
\* text `text`, generator state r: the columns, the displayed text, the
\* generator state and the exception it ends with
refresh(sel, fs, cols, text, r) ==
    refresh_after(build_selected(0, sel, fs, remove_columns(cols), r), sel, fs, text)

----------------------------------------------------------------------------
(* The seeded browser as a state machine *)

\* texts typed from scratch, and texts found in the settings store
TypedTexts == StringsUpTo(TypedChars, MaxTypedLen)

\* texts appended to what the path field shows
Appended == StringsUpTo(TypedChars, MaxAppendLen)

\* texts the path field can hold when Enter is pressed
EnteredTexts ==
    {t \in TypedTexts \cup {path_text \o a : a \in Appended} : Len(t) <= MaxTextLen}

\* the provider lists given to the constructor
ProviderLists == SeqsUpTo(Providers, MaxFns)

\* the browser once refresh() has ended with `built` on the selection sel
constructed(sel, built) ==
    [selection |-> sel, columns |-> built.columns, path_text |-> built.path_text,
     rng |-> built.rng, exc |-> built.exc]

\* load_settings with the stored path `saved`, then refresh()
loaded(sel, fs, saved, r) == constructed(sel, refresh(sel, fs, <<>>, saved, r))

\* FinderBrowser.__init__ with the provider list fs, the stored path `saved`
\* and the generator in state r
construct(fs, saved, r) == loaded(set_selection_from_path(saved), fs, saved, r)

\* value of `settings` until save_settings writes one
Unwritten == <<"unwritten">>

NoCall == [fn |-> "none", arg |-> <<>>, out |-> <<>>, exc |-> "none", reseeded |-> FALSE]

\* value of root_path where there is no filesystem browser
NoRoot == <<"none">>

\* the browser as __init__ leaves it
started(fs, w) ==
    /\ fns = fs
    /\ root_path = NoRoot
    /\ settings = Unwritten
    /\ selection = w.selection
    /\ columns = w.columns
    /\ path_text = w.path_text
    /\ rng = w.rng
    /\ raised = w.exc
    /\ pc = IF w.exc = "none" THEN "running" ELSE "crashed"

Init ==
    \E fs \in ProviderLists, saved \in TypedTexts, r \in RngStarts :
        /\ call = NoCall
        /\ first = NoCall
        /\ started(fs, construct(fs, saved, r))
        /\ last = [op |-> "load", col |-> -1, row |-> -1, text |-> saved]

\* _on_click appending the label to the whole selection
clicked_selection_append(sel, col_index, text) == sel \o <<text>>

\* _on_click keeping the selection through col_index
clicked_selection_mut(sel, col_index, text) == Take(sel, col_index + 1) \o <<text>>

\* FinderBrowser._on_click(col_index, item): the selection it installs
clicked_selection(sel, col_index, text) == Take(sel, col_index) \o <<text>>

\* the browser after a refresh() that leaves the path field as it was
refreshed_mut(built) ==
    /\ columns' = built.columns
    /\ path_text' = path_text
    /\ rng' = built.rng
    /\ raised' = built.exc

\* the browser after refresh() has ended with `built`
refreshed(built) ==
    /\ columns' = built.columns
    /\ path_text' = built.path_text
    /\ rng' = built.rng
    /\ raised' = built.exc

\* the selection sel installed, then refresh()
set_selection(sel, text) ==
    /\ selection' = sel
    /\ refreshed(refresh(sel, fns, columns, text, rng))

\* a click on row `row` of column col_index
_on_click(col_index, row) ==
    /\ pc = "running"
    /\ col_index \in 0..(Len(columns) - 1)
    /\ row \in 0..(Len(columns[col_index + 1].options) - 1)
    /\ set_selection(clicked_selection(selection, col_index,
                                       columns[col_index + 1].options[row + 1]),
                     path_text)
    /\ last' = [op |-> "click", col |-> col_index, row |-> row, text |-> <<>>]
    /\ UNCHANGED <<pc, fns, root_path, settings, harness_vars>>

\* Enter pressed in the path field holding `text`
_on_path_entered(text) ==
    /\ pc = "running"
    /\ text \in EnteredTexts
    /\ set_selection(set_selection_from_path(text), text)
    /\ last' = [op |-> "path", col |-> -1, row |-> -1, text |-> text]
    /\ UNCHANGED <<pc, fns, root_path, settings, harness_vars>>

\* refresh() called again by the host, nothing else having changed
refresh_again ==
    /\ pc = "running"
    /\ refreshed(refresh(selection, fns, columns, path_text, rng))
    /\ last' = [op |-> "refresh", col |-> -1, row |-> -1, text |-> <<>>]
    /\ UNCHANGED <<pc, fns, selection, root_path, settings, harness_vars>>

\* closeEvent (also reached by Escape): save_settings, then the window closes
closeEvent ==
    /\ pc = "running"
    /\ settings' = get_path(selection)
    /\ pc' = "closed"
    /\ raised' = "none"
    /\ last' = [op |-> "close", col |-> -1, row |-> -1, text |-> <<>>]
    /\ UNCHANGED <<fns, selection, columns, path_text, root_path, rng, harness_vars>>

Click == \E c \in 0..MaxFns, k \in 0..EntryCount : _on_click(c, k)

PathEntered == \E text \in EnteredTexts : _on_path_entered(text)

Next ==
    \/ Click
    \/ PathEntered
    \/ refresh_again
    \/ closeEvent

Spec == Init /\ [][Next]_vars

----------------------------------------------------------------------------
(* The core functions called directly: the path codec (SpecCodec) and the  *)
(* generator (SpecGen).  No browser exists in these specifications.        *)

NoBrowser ==
    /\ pc = "none"
    /\ fns = <<>>
    /\ selection = <<>>
    /\ columns = <<>>
    /\ path_text = <<>>
    /\ root_path = NoRoot
    /\ settings = Unwritten
    /\ raised = "none"
    /\ last = [op |-> "none", col |-> -1, row |-> -1, text |-> <<>>]

\* segments handed to the codec: empty ones and ones with a slash included
CodecSegments == StringsUpTo({"a", "/"}, MaxSegLen)

CodecSelections == SeqsUpTo(CodecSegments, MaxSelLen)

\* set_selection_from_path(get_path()) on the selection sel
round_trip(sel) ==
    /\ call' = [fn |-> "round_trip", arg |-> sel,
                out |-> set_selection_from_path(get_path(sel)),
                exc |-> "none", reseeded |-> FALSE]
    /\ UNCHANGED <<browser_vars, rng, first>>

\* set_selection_from_path on the text `text`
decode_path(text) ==
    /\ call' = [fn |-> "decode", arg |-> text,
                out |-> set_selection_from_path(text),
                exc |-> "none", reseeded |-> FALSE]
    /\ UNCHANGED <<browser_vars, rng, first>>

InitCodec ==
    /\ NoBrowser
    /\ rng = RngStart
    /\ call = NoCall
    /\ first = NoCall

\* one call of the codec per behaviour, on any input
RoundTripCall ==
    /\ call.fn = "none"
    /\ \E sel \in CodecSelections : round_trip(sel)

DecodeCall ==
    /\ call.fn = "none"
    /\ \E text \in TypedTexts : decode_path(text)

NextCodec ==
    \/ RoundTripCall
    \/ DecodeCall

SpecCodec == InitCodec /\ [][NextCodec]_vars

\* the record of a call of rand_strlist that ended with g, begun in state r
gen_call(seed, n, m, count, g, r) ==
    [fn |-> "rand_strlist",
     arg |-> [seed |-> seed, n |-> n, m |-> m, count |-> count],
     out |-> g.result, exc |-> g.exc,
     reseeded |-> r # rand_strlist(seed, n, m, 0, r).rng]

\* the call `this` recorded, the generator left in state r1
record_call(this, r1) ==
    /\ rng' = r1
    /\ call' = this
    /\ first' = IF first.fn = "none" THEN this ELSE first

\* the call that ended with g recorded
generated(seed, n, m, count, g) ==
    record_call(gen_call(seed, n, m, count, g, rng), g.rng)

\* rand_strlist(seed, n, m, count) called by the host
generate(seed, n, m, count) ==
    /\ generated(seed, n, m, count, rand_strlist(seed, n, m, count, rng))
    /\ UNCHANGED browser_vars

InitGen ==
    /\ NoBrowser
    /\ rng \in RngStarts
    /\ call = NoCall
    /\ first = NoCall

GenerateCall ==
    \E seed \in GenSeeds, nm \in GenLengths, count \in GenCounts :
        generate(seed, nm[1], nm[2], count)

NextGen == GenerateCall

SpecGen == InitGen /\ [][NextGen]_vars

----------------------------------------------------------------------------
(* The filesystem seen by finder_browser.py: a fixed tree without symbolic *)
(* links.  os.path.isdir and os.listdir hand the path to the system, which *)
(* resolves it component by component (lookup); os.path.abspath only       *)
(* rewrites the text.                                                      *)

Sep == <<"/">>

ParDir == <<".", ".">>

\* the process's working directory
Cwd == <<"/", "A">>

Dirs ==
    { <<"/">>,
      <<"/", "A">>,
      <<"/", "A", "/", "B">>,
      <<"/", "d">>,
      <<"/", "Z">> }

Files ==
    { <<"/", "b", ".", "t", "x", "t">>,
      <<"/", "A", "/", "C">>,
      <<"/", "A", "/", "c">>,
      <<"/", "A", "/", "e">>,
      <<"/", "d", "/", "f">> }

\* directories of mode 000: the process may neither enumerate them nor
\* search them for a name
Unreadable == { <<"/", "Z">> }

\* s.endswith(c) for a one-character suffix
str_endswith(s, c) == Len(s) > 0 /\ s[Len(s)] = c

\* s.rfind(c) + 1: the length of s through its last c, 0 if there is none
RECURSIVE rfind_end(_, _, _)
rfind_end(s, c, i) ==
    IF i = 0 THEN 0
    ELSE IF s[i] = c THEN i
    ELSE rfind_end(s, c, i - 1)

\* s.rstrip(c)
RECURSIVE str_rstrip(_, _)
str_rstrip(s, c) ==
    IF str_endswith(s, c) THEN str_rstrip(Take(s, Len(s) - 1), c) ELSE s

\* os.path.isabs
isabs(p) == str_startswith(p, "/")

\* os.path.join(a, b)
path_join(a, b) ==
    IF str_startswith(b, "/") THEN b
    ELSE IF Len(a) = 0 \/ str_endswith(a, "/") THEN a \o b
    ELSE a \o Sep \o b

\* the loop of posixpath.normpath over the components, from component i on
RECURSIVE norm_comps(_, _, _, _)
norm_comps(comps, i, rooted, kept) ==
    IF i > Len(comps) THEN kept
    ELSE IF comps[i] = <<>> \/ comps[i] = <<".">>
         THEN norm_comps(comps, i + 1, rooted, kept)
    ELSE IF \/ comps[i] # ParDir
            \/ (~rooted /\ Len(kept) = 0)
            \/ (Len(kept) > 0 /\ kept[Len(kept)] = ParDir)
         THEN norm_comps(comps, i + 1, rooted, Append(kept, comps[i]))
    ELSE IF Len(kept) > 0
         THEN norm_comps(comps, i + 1, rooted, Take(kept, Len(kept) - 1))
    ELSE norm_comps(comps, i + 1, rooted, kept)

\* the leading slashes posixpath.normpath keeps: two if the path starts with
\* exactly two, one if it starts with any other number, else none
initial_slashes(p) ==
    IF ~str_startswith(p, "/") THEN <<>>
    ELSE IF Len(p) >= 2 /\ p[2] = "/" /\ ~(Len(p) >= 3 /\ p[3] = "/") THEN <<"/", "/">>
    ELSE Sep

\* "/".join(comps) behind the kept leading slashes, "." if that is empty
norm_joined(lead, joined) ==
    IF Len(lead \o joined) = 0 THEN <<".">> ELSE lead \o joined

\* os.path.normpath
normpath(p) ==
    IF Len(p) = 0 THEN <<".">>
    ELSE norm_joined(initial_slashes(p),
                     str_join(Sep, norm_comps(str_split(p, "/"), 1, isabs(p), <<>>)))

\* os.path.abspath
abspath(p) == normpath(IF isabs(p) THEN p ELSE path_join(Cwd, p))

\* os.path.dirname: the head through the last slash, with its trailing
\* slashes removed unless it is slashes only
dirname(p) ==
    LET head == Take(p, rfind_end(p, "/", Len(p)))
    IN  IF Len(head) > 0 /\ Len(str_rstrip(head, "/")) > 0
        THEN str_rstrip(head, "/") ELSE head

\* os.path.basename
basename(p) == Drop(p, rfind_end(p, "/", Len(p)))

\* the system's resolution of the path p: the node it names, or the error
\* of the step that fails.  It starts at the root for an absolute path
\* (however many slashes lead it) and at the working directory otherwise,
\* and takes the pieces between slashes in turn: a piece behind a file
\* fails (so does a trailing slash), a named piece needs the right to
\* search the directory it is looked up in, "." stays, ".." goes to the
\* parent (the root is its own parent), a name must exist.  The empty
\* path names nothing.
lookup(p) ==
    LET comps == str_split(p, "/")
        failed(exc) == [exc |-> exc, node |-> <<>>]
        RECURSIVE walk(_, _)
        walk(i, node) ==
            IF i > Len(comps) THEN [exc |-> "none", node |-> node]
            ELSE IF node \notin Dirs THEN failed("NotADirectoryError")
            ELSE IF comps[i] = <<>> THEN walk(i + 1, node)
            ELSE IF node \in Unreadable THEN failed("PermissionError")
            ELSE IF comps[i] = <<".">> THEN walk(i + 1, node)
            ELSE IF comps[i] = ParDir THEN walk(i + 1, dirname(node))
            ELSE IF path_join(node, comps[i]) \notin (Dirs \cup Files)
                 THEN failed("FileNotFoundError")
            ELSE walk(i + 1, path_join(node, comps[i]))
    IN  IF Len(p) = 0 THEN failed("FileNotFoundError")
        ELSE walk(1, IF isabs(p) THEN Sep ELSE Cwd)

\* os.path.isdir: the path resolves, and to a directory
isdir(p) == lookup(p).exc = "none" /\ lookup(p).node \in Dirs

\* the exception os.listdir(p) raises, "none" if it returns
listdir_exc(p) ==
    IF lookup(p).exc # "none" THEN lookup(p).exc
    ELSE IF lookup(p).node \in Files THEN "NotADirectoryError"
    ELSE IF lookup(p).node \in Unreadable THEN "PermissionError"
    ELSE "none"

\* the names in the directory p, none where os.listdir raises
children(p) ==
    IF listdir_exc(p) # "none" THEN {}
    ELSE {basename(q) : q \in {x \in (Dirs \cup Files) :
                                  x # Sep /\ dirname(x) = lookup(p).node}}

\* the orders the names can come in
RECURSIVE orders(_)
orders(names) ==
    IF names = {} THEN {<<>>}
    ELSE UNION {{<<x>> \o q : q \in orders(names \ {x})} : x \in names}

\* the lists os.listdir(p) can return: the names in any order
listdir(p) == IF listdir_exc(p) # "none" THEN {<<>>} ELSE orders(children(p))

----------------------------------------------------------------------------
(* The sort of _populate_list_widget *)

\* c.lower() for one character
lower_char(c) == IF Ord(c) >= 65 /\ Ord(c) <= 90 THEN Chr(Ord(c) + 32) ELSE c

\* name.lower()
str_lower(s) == [i \in 1..Len(s) |-> lower_char(s[i])]

\* a < b for str, by code point
RECURSIVE str_lt_from(_, _, _)
str_lt_from(a, b, i) ==
    IF i > Len(b) THEN FALSE
    ELSE IF i > Len(a) THEN TRUE
    ELSE IF Ord(a[i]) < Ord(b[i]) THEN TRUE
    ELSE IF Ord(a[i]) > Ord(b[i]) THEN FALSE
    ELSE str_lt_from(a, b, i + 1)

str_lt(a, b) == str_lt_from(a, b, 1)

\* the key without lower()
sort_key_mut(path, name) ==
    [notdir |-> ~isdir(path_join(path, name)), name |-> name]

\* key of the sort: (not os.path.isdir(os.path.join(path, name)), name.lower())
sort_key(path, name) ==
    [notdir |-> ~isdir(path_join(path, name)), name |-> str_lower(name)]

\* k1 < k2 for the key tuples (False < True)
key_lt(k1, k2) ==
    \/ (~k1.notdir /\ k2.notdir)
    \/ (k1.notdir = k2.notdir /\ str_lt(k1.name, k2.name))

\* name put into the sorted list behind every entry whose key is not greater
RECURSIVE insert_sorted(_, _, _)
insert_sorted(sorted, name, path) ==
    IF Len(sorted) = 0 THEN <<name>>
    ELSE IF key_lt(sort_key(path, name), sort_key(path, sorted[Len(sorted)]))
         THEN Append(insert_sorted(Take(sorted, Len(sorted) - 1), name, path),
                     sorted[Len(sorted)])
    ELSE Append(sorted, name)

\* entries.sort(key=...): stable, so equal keys keep the order of os.listdir
RECURSIVE sort_entries(_, _, _)
sort_entries(entries, i, path) ==
    IF i = 0 THEN <<>>
    ELSE insert_sorted(sort_entries(entries, i - 1, path), entries[i], path)

----------------------------------------------------------------------------
(* FinderBrowser of finder_browser.py *)

\* a QListWidgetItem: its text, its Qt.UserRole data (has_path is FALSE and
\* path empty when no data was set) and its icon
list_item(text, has_path, path, icon) ==
    [text |-> text, has_path |-> has_path, path |-> path, icon |-> icon]

PermissionDenied ==
    <<"P", "e", "r", "m", "i", "s", "s", "i", "o", "n", " ", "D", "e", "n", "i", "e", "d">>

\* the item of one directory entry
entry_item(path, name) ==
    list_item(name, TRUE, path_join(path, name),
              IF isdir(path_join(path, name)) THEN "SP_DirIcon" ELSE "SP_FileIcon")

\* the root test comparing the path as given
at_root_mut(path) == path = Sep

\* `os.path.abspath(path) != os.path.abspath(os.sep)`, negated
at_root(path) == abspath(path) = abspath(Sep)

\* the ".." item, if the path is not the root
parent_items(path) ==
    IF at_root(path) THEN <<>>
    ELSE <<list_item(ParDir, TRUE, abspath(path_join(path, ParDir)), "SP_ArrowUp")>>

\* the items of the entries, in their sorted order
entry_items(path, sorted) == [i \in 1..Len(sorted) |-> entry_item(path, sorted[i])]

\* the listing of an unreadable directory with the ".." item put before the
\* message
denied_items_mut(path) ==
    parent_items(path) \o <<list_item(PermissionDenied, FALSE, <<>>, "none")>>

\* the `except PermissionError` branch: one item with the message, no data
\* and no icon, and nothing else
denied_items(path) == <<list_item(PermissionDenied, FALSE, <<>>, "none")>>

\* _populate_list_widget(list_widget, path), os.listdir having returned
\* `entries`: the widget's tooltip and items, and the exception that escapes
_populate_list_widget(path, entries) ==
    IF listdir_exc(path) = "PermissionError"
    THEN [tooltip |-> path, exc |-> "none", items |-> denied_items(path)]
    ELSE IF listdir_exc(path) # "none"
    THEN [tooltip |-> path, exc |-> listdir_exc(path), items |-> <<>>]
    ELSE [tooltip |-> path, exc |-> "none",
          items |-> parent_items(path)
                    \o entry_items(path, sort_entries(entries, Len(entries), path))]

\* the browser after _add_column(path) found the list widget filled as `widget`
column_added(cols, path, widget) ==
    IF widget.exc # "none"
    THEN /\ columns' = cols
         /\ raised' = widget.exc
         /\ UNCHANGED path_text
    ELSE /\ columns' = Append(cols, [tooltip |-> widget.tooltip, items |-> widget.items])
         /\ path_text' = path
         /\ raised' = "none"

\* _add_column(path) on the columns cols, os.listdir having returned `entries`
_add_column(cols, path, entries) ==
    column_added(cols, path, _populate_list_widget(path, entries))

\* the loop popping while `len(self.columns) > column_index`
columns_left_mut(cols, column_index) == Take(cols, column_index)

\* the loop `while len(self.columns) > column_index + 1`
columns_left(cols, column_index) == Take(cols, column_index + 1)

\* _on_item_clicked(column_index, item) for the item in row `row`
_on_item_clicked(column_index, row) ==
    /\ pc = "running"
    /\ column_index \in 0..(Len(columns) - 1)
    /\ row \in 0..(Len(columns[column_index + 1].items) - 1)
    /\ LET item == columns[column_index + 1].items[row + 1]
       IN  /\ (item.has_path /\ isdir(item.path)) => column_index + 2 <= MaxFsColumns
           /\ IF ~item.has_path \/ Len(item.path) = 0
              THEN /\ columns' = columns_left(columns, column_index)
                   /\ raised' = "none"
                   /\ UNCHANGED path_text
              ELSE IF isdir(item.path)
              THEN \E entries \in listdir(item.path) :
                       _add_column(columns_left(columns, column_index), item.path, entries)
              ELSE /\ columns' = columns_left(columns, column_index)
                   /\ path_text' = item.path
                   /\ raised' = "none"
    /\ last' = [op |-> "item", col |-> column_index, row |-> row, text |-> <<>>]
    /\ UNCHANGED <<pc, fns, selection, root_path, settings, rng, harness_vars>>

\* root paths handed to the constructor (None becomes os.path.abspath(os.sep))
RootPaths ==
    { abspath(Sep),
      <<"/", "A">>,
      <<"B">>,
      <<".">>,
      <<"/", "A", "/", ".", ".">>,
      <<"/", "A", "/", "B", "/">>,
      <<"/", "Z">>,
      <<"/", "A", "/", "e">>,
      <<"/", "n", "o">>,
      <<"/", "/", "A">>,
      <<"/", "A", "/", "e", "/", ".", ".">>,
      <<"/", "Z", "/", ".", ".">> }

\* FinderBrowser.__init__(root_path): the state it leaves
InitFS ==
    /\ fns = <<>>
    /\ selection = <<>>
    /\ settings = Unwritten
    /\ rng = RngStart
    /\ call = NoCall
    /\ first = NoCall
    /\ last = [op |-> "init", col |-> -1, row |-> -1, text |-> <<>>]
    /\ root_path \in RootPaths
    /\ \E entries \in listdir(root_path) :
           LET widget == _populate_list_widget(root_path, entries)
           IN  /\ columns = IF widget.exc # "none" THEN <<>>
                            ELSE <<[tooltip |-> widget.tooltip, items |-> widget.items]>>
               /\ path_text = IF widget.exc # "none" THEN <<>> ELSE root_path
               /\ raised = widget.exc
               /\ pc = IF widget.exc # "none" THEN "crashed" ELSE "running"

ItemClicked ==
    \E c \in 0..(MaxFsColumns - 1), k \in 0..Cardinality(Dirs \cup Files) :
        _on_item_clicked(c, k)

NextFS == ItemClicked

SpecFS == InitFS /\ [][NextFS]_vars

----------------------------------------------------------------------------
(* Properties of the core functions *)

\* a selection whose segments are all non-empty and slash-free
valid_selection(sel) ==
    \A i \in 1..Len(sel) :
        /\ Len(sel[i]) > 0
        /\ \A j \in 1..Len(sel[i]) : sel[i][j] # "/"

\* C3: decode(encode(selection)) is the selection, for every selection of
\* non-empty slash-free segments, the empty selection included
RoundTrip ==
    (call.fn = "round_trip" /\ valid_selection(call.arg)) => call.out = call.arg

\* C3 witness: a three-segment selection went through the codec
RoundTripWitness ==
    /\ call.fn = "round_trip"
    /\ call.arg = << <<"a">>, <<"a", "a">>, <<"a">> >>
    /\ call.out = call.arg

\* C8: a call of the generator returns what the first call with the same
\* arguments returned, whatever calls came in between
GenDeterminism ==
    (call.fn = "rand_strlist" /\ call.arg = first.arg) =>
        (call.out = first.out /\ call.exc = first.exc)

\* C8 witness: the first call is repeated when other calls have left the
\* generator in a state different from the one the seed gives
GenDeterminismWitness ==
    /\ call.fn = "rand_strlist"
    /\ call.arg = first.arg
    /\ call.reseeded
    /\ first.reseeded
    /\ Len(call.out) = GenCount
    /\ call.out = first.out

----------------------------------------------------------------------------
(* Properties of the seeded browser, checked under Spec *)

\* options the provider of depth i (0-based) yields for the selection sel
options_at(sel, fs, i) == call_fn(fs[i + 1], PyList(Take(sel, i)), rng).result

\* C1: for N providers and a selection of length k <= N, the rebuild leaves
\* exactly min(k+1, N) columns, whether or not the selected labels match
ColumnCount ==
    Len(selection) <= Len(fns) =>
        Len(columns) = Min(Len(selection) + 1, Len(fns))

\* C1 witness: a typed selection at full depth whose first label matches no
\* option: two columns, no preview column
ColumnCountWitness ==
    /\ pc = "running"
    /\ Len(fns) = 2
    /\ Len(selection) = 2
    /\ Len(columns) = 2
    /\ columns[1].currentRow = -1

\* C2: with at least one provider, no handler ends with an exception, and
\* the columns it leaves are those of the selection
RebuildNeverRaises ==
    Len(fns) >= 1 =>
        /\ raised = "none"
        /\ Len(columns) = Min(Len(selection) + 1, Len(fns))

\* C4: a click on a row of column i installs selection[:i] + [clicked label]
\* and rebuilds the columns for it
ClickTransition ==
    [][last'.op = "click" =>
        LET i == last'.col
            label == columns[i + 1].options[last'.row + 1]
        IN  /\ selection' = Take(selection, i) \o <<label>>
            /\ Len(selection') = i + 1
            /\ \A j \in 1..i : selection'[j] = selection[j]
            /\ raised' = "none"
            /\ Len(columns') = Min(i + 2, Len(fns))
            /\ \A j \in 1..Len(columns') :
                   columns'[j].options = options_at(selection', fns, j - 1)
            /\ columns'[i + 1].currentRow >= 0
            /\ path_text' = get_path(selection')]_vars

\* C4 witness: a click in the second column, under a typed first label that
\* matches no option
ClickTransitionWitness ==
    /\ last.op = "click"
    /\ last.col = 1
    /\ Len(selection) = 2
    /\ columns[1].currentRow = -1
    /\ columns[2].currentRow >= 0

\* C5: refresh() called again leaves the same columns, the same selection
\* and the same providers
RebuildIdempotent ==
    [][last'.op = "refresh" =>
        /\ columns' = columns
        /\ selection' = selection
        /\ fns' = fns]_vars

\* C5 witness: refresh() was called again on two columns, the first with a
\* selected row
RebuildIdempotentWitness ==
    /\ last.op = "refresh"
    /\ Len(columns) = 2
    /\ columns[1].currentRow >= 0

\* C6: with the empty selection the path is "/" and there are min(1, N)
\* columns, the one column being an unselected preview
EmptySelection ==
    Len(selection) = 0 =>
        /\ get_path(selection) = Slash
        /\ path_text = Slash
        /\ Len(columns) = Min(1, Len(fns))
        /\ \A j \in 1..Len(columns) : columns[j].currentRow = -1

\* C6 witness: the text "/" or "" was entered and left one preview column
EmptySelectionWitness ==
    /\ last.op = "path"
    /\ last.text \in {<<>>, Slash}
    /\ Len(selection) = 0
    /\ Len(columns) = 1

\* C7: no element of the selection is empty or contains a slash
SelectionInvariant ==
    \A i \in 1..Len(selection) :
        /\ Len(selection[i]) > 0
        /\ \A j \in 1..Len(selection[i]) : selection[i][j] # "/"

\* C7 witness: a text with a doubled slash was entered and installed two
\* segments
SelectionInvariantWitness ==
    /\ last.op = "path"
    /\ last.text = <<"a", "/", "/", "a">>
    /\ selection = << <<"a">>, <<"a">> >>

----------------------------------------------------------------------------
(* Properties of the filesystem browser, checked under SpecFS *)

\* a column whose listing succeeded: every item carries a path
listed_ok(c) == \A i \in 1..Len(c.items) : c.items[i].has_path

\* the items of a column that are directory entries, not the ".." item
RECURSIVE entries_of(_)
entries_of(items) ==
    IF Len(items) = 0 THEN <<>>
    ELSE IF items[1].icon = "SP_ArrowUp" THEN entries_of(Tail(items))
    ELSE <<items[1]>> \o entries_of(Tail(items))

\* directories before the others, each group ascending without regard to case
dirs_first_sorted(es) ==
    \A i, j \in 1..Len(es) :
        i < j =>
            /\ ~(es[i].icon = "SP_FileIcon" /\ es[j].icon = "SP_DirIcon")
            /\ es[i].icon = es[j].icon =>
                   ~str_lt(str_lower(es[j].text), str_lower(es[i].text))

\* C9: a successful listing shows every name of the directory once, all
\* directories before all non-directories, and each group in ascending
\* case-insensitive order
DirectoryOrdering ==
    \A k \in 1..Len(columns) :
        listed_ok(columns[k]) =>
            /\ dirs_first_sorted(entries_of(columns[k].items))
            /\ {e.text : e \in {entries_of(columns[k].items)[i] :
                                  i \in 1..Len(entries_of(columns[k].items))}}
                   = children(columns[k].tooltip)
            /\ Len(entries_of(columns[k].items)) = Cardinality(children(columns[k].tooltip))

\* C9 witness: the root is listed as A, d, Z, b.txt
DirectoryOrderingWitness ==
    /\ pc = "running"
    /\ Len(columns) >= 1
    /\ columns[1].tooltip = Sep
    /\ [i \in 1..Len(columns[1].items) |-> columns[1].items[i].text]
           = << <<"A">>, <<"d">>, <<"Z">>, <<"b", ".", "t", "x", "t">> >>

\* C10: a successful listing has the ".." item exactly when the absolute
\* form of the listed path is not the root; the item is then the first one,
\* the only one, and carries the absolute path of the parent directory
ParentEntry ==
    \A k \in 1..Len(columns) :
        listed_ok(columns[k]) =>
            /\ (\E i \in 1..Len(columns[k].items) : columns[k].items[i].text = ParDir)
                   <=> abspath(columns[k].tooltip) # Sep
            /\ \A i \in 1..Len(columns[k].items) :
                   columns[k].items[i].text = ParDir =>
                       /\ i = 1
                       /\ columns[k].items[i].path = dirname(abspath(columns[k].tooltip))

\* C10 witness: the browser opened on ".", whose listing starts with the
\* ".." item carrying "/"; that item was clicked and the listing of the root
\* has no ".." item
ParentEntryWitness ==
    /\ Len(columns) = 2
    /\ columns[1].tooltip = <<".">>
    /\ columns[1].items[1].text = ParDir
    /\ columns[1].items[1].path = Sep
    /\ columns[2].tooltip = Sep
    /\ Len(columns[2].items) = 4
    /\ \A i \in 1..4 : columns[2].items[i].text # ParDir

\* the item the last click of the filesystem browser was made on
clicked_item == columns[last.col + 1].items[last.row + 1]

\* C11: a directory whose listing is refused is shown as exactly one item,
\* "Permission Denied", that carries no path (so neither ".." nor a child is
\* listed), and opening it, at construction or by a click, raises nothing
PermissionSentinel ==
    /\ \A j \in 1..Len(columns) :
           listdir_exc(columns[j].tooltip) = "PermissionError"
           => /\ Len(columns[j].items) = 1
              /\ columns[j].items[1].text = PermissionDenied
              /\ ~columns[j].items[1].has_path
              /\ columns[j].items[1].path = <<>>
    /\ (last.op = "init" /\ listdir_exc(root_path) = "PermissionError")
       => /\ pc = "running"
          /\ raised = "none"
          /\ Len(columns) = 1
          /\ columns[1].tooltip = root_path
    /\ (/\ last.op = "item"
        /\ clicked_item.has_path
        /\ isdir(clicked_item.path)
        /\ listdir_exc(clicked_item.path) = "PermissionError")
       => /\ pc = "running"
          /\ raised = "none"
          /\ Len(columns) = last.col + 2
          /\ columns[last.col + 2].tooltip = clicked_item.path

PermissionSentinelWitness ==
    /\ last.op = "item"
    /\ last.col = 0
    /\ root_path = Sep
    /\ clicked_item.text = <<"Z">>
    /\ Len(columns) = 2
    /\ columns[2].tooltip = <<"/", "Z">>
    /\ Len(columns[2].items) = 1
    /\ columns[2].items[1].text = PermissionDenied
    /\ raised = "none"

\* the item a click in column col_index, row `row`, of the present columns hits
item_at(col_index, row) == columns[col_index + 1].items[row + 1]

\* C12: a click on an item of column i leaves the columns 0..i as they were
\* and removes every column to their right; an item whose path is a directory
\* gets exactly one new column listing that path (i + 2 columns), any other
\* item gets none (i + 1 columns); an item without a path, such as the
\* permission sentinel, leaves the displayed path unchanged
FsClickTransition ==
    [][last'.op = "item"
       => /\ Take(columns', last'.col + 1) = Take(columns, last'.col + 1)
          /\ IF /\ item_at(last'.col, last'.row).has_path
                /\ isdir(item_at(last'.col, last'.row).path)
             THEN /\ Len(columns') = last'.col + 2
                  /\ columns'[last'.col + 2].tooltip
                         = item_at(last'.col, last'.row).path
             ELSE Len(columns') = last'.col + 1
          /\ ~item_at(last'.col, last'.row).has_path
             => /\ Len(columns') = last'.col + 1
                /\ path_text' = path_text]_vars

FsClickTransitionWitness ==
    /\ last.op = "item"
    /\ last.col = 1
    /\ root_path = Sep
    /\ Len(columns) = 2
    /\ clicked_item.text = PermissionDenied
    /\ ~clicked_item.has_path
    /\ path_text = <<"/", "Z">>

\* options the provider of the preview depth yields for the whole selection
preview_options(sel, fs) == call_fn(fs[Len(sel) + 1], PyList(sel), rng).result

\* C13: after a rebuild, the column of every selected depth i shows what
\* provider i yields for the labels selected above it, selection[0..i), and
\* the preview column, at depth len(selection), shows what its provider
\* yields for the whole selection
ColumnSeeds ==
    /\ \A j \in 1..Len(columns) :
           j <= Len(selection) => columns[j].options = options_at(selection, fns, j - 1)
    /\ raised = "none" =>
           /\ Len(columns) >= Min(Len(selection), Len(fns))
           /\ Len(selection) < Len(fns) =>
                  /\ Len(columns) = Len(selection) + 1
                  /\ columns[Len(selection) + 1].options = preview_options(selection, fns)

ColumnSeedsWitness ==
    /\ last.op = "click"
    /\ last.col = 1
    /\ Len(fns) = 2
    /\ Len(selection) = 2
    /\ Len(columns) = 2
    /\ raised = "none"
    /\ columns[2].options = options_at(selection, fns, 1)
    /\ columns[2].options # columns[1].options

\* C14: a column of a selected depth has a selected row exactly when the
\* selected label is among its options, and the row is the first that holds
\* the label; a label that matches nothing leaves the column without a
\* selected row, raises nothing and does not stop the deeper columns from
\* being built; the preview column never has a selected row
SelectionMarking ==
    /\ \A j \in 1..Len(columns) :
           IF j <= Len(selection)
           THEN /\ columns[j].currentRow # -1
                      <=> \E k \in 1..Len(columns[j].options) :
                              columns[j].options[k] = selection[j]
                /\ columns[j].currentRow # -1 =>
                      /\ columns[j].currentRow \in 0..(Len(columns[j].options) - 1)
                      /\ columns[j].options[columns[j].currentRow + 1] = selection[j]
                      /\ \A k \in 1..columns[j].currentRow :
                             columns[j].options[k] # selection[j]
           ELSE columns[j].currentRow = -1
    /\ (pc = "running" /\ Len(selection) <= Len(fns)) =>
           /\ raised = "none"
           /\ Len(columns) >= Len(selection)

SelectionMarkingWitness ==
    /\ last.op = "path"
    /\ Len(fns) = 2
    /\ selection = <<<<"a">>, <<"a">>>>
    /\ raised = "none"
    /\ Len(columns) = 2
    /\ columns[1].currentRow = -1
    /\ columns[2].currentRow = -1
    /\ Len(columns[2].options) = EntryCount

\* the maximal slash-free runs of the text s from position i on, `cur` being
\* the run that is open at i
RECURSIVE runs_from(_, _, _)
runs_from(s, i, cur) ==
    IF i > Len(s) THEN (IF Len(cur) = 0 THEN <<>> ELSE <<cur>>)
    ELSE IF s[i] = "/"
    THEN (IF Len(cur) = 0 THEN <<>> ELSE <<cur>>) \o runs_from(s, i + 1, <<>>)
    ELSE runs_from(s, i + 1, Append(cur, s[i]))

\* C15: decoding never fails and normalizes: whatever the text, the result is
\* the sequence of its non-empty slash-separated segments in their order (one
\* leading slash stripped, empty segments dropped), the empty sequence when
\* nothing is left
DecodeTotal ==
    call.fn = "decode" =>
        /\ call.exc = "none"
        /\ call.out = runs_from(call.arg, 1, <<>>)
        /\ \A k \in 1..Len(call.out) :
               /\ Len(call.out[k]) > 0
               /\ \A c \in 1..Len(call.out[k]) : call.out[k][c] # "/"
        /\ (call.arg = <<>> \/ call.arg = Slash) => call.out = <<>>

DecodeTotalWitness ==
    /\ call.fn = "decode"
    /\ call.arg = <<"/", "/", "a", "/">>
    /\ call.out = <<<<"a">>>>
    /\ call.exc = "none"

\* what rand_strlist returns for the arguments of the recorded call with the
\* seed replaced by the list holding the one text t
out_for_text(t) ==
    rand_strlist(PyList(<<t>>), call.arg.n, call.arg.m, call.arg.count, rng).result

\* C16, as stated: a call with the empty seed list returns what a call with
\* the one-element list holding the text "[]" returns, the text hashed being
\* "[]" and not the empty string
EmptySeedAsRepr ==
    (call.fn = "rand_strlist" /\ call.arg.seed = PyList(<<>>))
    => call.out = out_for_text(<<"[", "]">>)

\* C16, amended: a seed that is not a list is treated as the one-element list
\* holding its string representation, whereas the empty list stays a list:
\* the text hashed for it is the empty string, as for the list holding only
\* the empty string
SeedCoercion ==
    call.fn = "rand_strlist" =>
        /\ ~IsList(call.arg.seed) => call.out = out_for_text(py_str(call.arg.seed))
        /\ call.arg.seed = PyList(<<>>) => call.out = out_for_text(<<>>)

SeedCoercionWitness ==
    /\ call.fn = "rand_strlist"
    /\ call.arg.seed = PyTuple(<<>>)
    /\ call.arg.count = GenCount
    /\ Len(call.out) = GenCount
    /\ call.out = out_for_text(<<"(", ")">>)
    /\ first.arg.seed = PyList(<<>>)
    /\ first.arg.count = GenCount
    /\ first.arg.n = call.arg.n
    /\ first.arg.m = call.arg.m
    /\ first.out # out_for_text(<<"[", "]">>)

\* the characters A-Z, a-z and 0-9, by their codes
is_alnum(c) ==
    \/ Ord(c) \in 48..57
    \/ Ord(c) \in 65..90
    \/ Ord(c) \in 97..122

\* C17: for n <= m a call returns exactly `count` strings, each of a length
\* in n..m and made of letters and digits only, and raises nothing; for
\* count = 0 it returns the empty list
OutputShape ==
    (call.fn = "rand_strlist" /\ call.arg.n <= call.arg.m) =>
        /\ call.exc = "none"
        /\ Len(call.out) = call.arg.count
        /\ \A k \in 1..Len(call.out) :
               /\ Len(call.out[k]) >= call.arg.n
               /\ Len(call.out[k]) <= call.arg.m
               /\ \A c \in 1..Len(call.out[k]) : is_alnum(call.out[k][c])
        /\ call.arg.count = 0 => call.out = <<>>

OutputShapeWitness ==
    /\ call.fn = "rand_strlist"
    /\ call.arg.n = GenMinLen
    /\ call.arg.m = GenMaxLen
    /\ call.arg.count = GenCount
    /\ Len(call.out) = GenCount
    /\ \E k \in 1..Len(call.out) : Len(call.out[k]) = GenMaxLen
    /\ first.fn = "rand_strlist"
    /\ first.arg.count = 0
    /\ first.out = <<>>
    /\ first.exc = "none"

\* C18: a click made while the selection is no longer than the provider
\* list hits a column at a position below that length and leaves a selection
\* and a number of columns that do not exceed it, so clicks alone never take
\* the browser beyond the depth of its providers
DepthBound ==
    [][(last'.op = "click" /\ Len(selection) <= Len(fns))
       => /\ last'.col < Len(fns)
          /\ Len(selection') <= Len(fns)
          /\ Len(columns') <= Len(fns)
          /\ raised' = "none"]_vars

DepthBoundWitness ==
    /\ last.op = "click"
    /\ Len(fns) = MaxFns
    /\ last.col = Len(fns) - 1
    /\ Len(selection) = Len(fns)
    /\ Len(columns) = Len(fns)
    /\ columns[Len(fns)].currentRow = last.row

\* C19: after a click or a path entry whose rebuild ran to its end, the path
\* field shows "/" followed by the selection joined with "/", whatever text
\* was typed
PathFollowsSelection ==
    (last.op \in {"click", "path"} /\ raised = "none")
    => path_text = Slash \o str_join(Slash, selection)

PathFollowsSelectionWitness ==
    /\ last.op = "path"
    /\ last.text = <<"a", "/", "/", "a">>
    /\ raised = "none"
    /\ selection = <<<<"a">>, <<"a">>>>
    /\ path_text = <<"/", "a", "/", "a">>

\* C20: two calls with seed lists whose items concatenate to the same text,
\* and with the same lengths and count, return the same list
SeedConcatenation ==
    (/\ first.fn = "rand_strlist"
     /\ call.fn = "rand_strlist"
     /\ IsList(first.arg.seed)
     /\ IsList(call.arg.seed)
     /\ str_join(<<>>, first.arg.seed.items) = str_join(<<>>, call.arg.seed.items)
     /\ first.arg.n = call.arg.n
     /\ first.arg.m = call.arg.m
     /\ first.arg.count = call.arg.count)
    => /\ call.out = first.out
       /\ call.exc = first.exc

SeedConcatenationWitness ==
    /\ first.fn = "rand_strlist"
    /\ call.fn = "rand_strlist"
    /\ first.arg.seed = PyList(<<<<"a", "b">>>>)
    /\ call.arg.seed = PyList(<<<<"a">>, <<"b">>>>)
    /\ first.arg.n = call.arg.n
    /\ first.arg.m = call.arg.m
    /\ first.arg.count = GenCount
    /\ call.arg.count = GenCount
    /\ Len(call.out) = GenCount
    /\ call.out = first.out

====
